---- MODULE Spec2Model ----
(***************************************************************************)
(* Model of the YouTube dashboard: the snapshot store, the delta engine,   *)
(* the ranking engine, the snapshot builders and the refresh callers       *)
(* (nim_core.py, nim_web.py, nim_cli.py).                                  *)
(*                                                                         *)
(* Python values that may be an int, a float, the string "N/A" or a        *)
(* missing dict key are tagged records [t, v].  A float that was produced  *)
(* by round(x, 2) is kept as its number of hundredths.                     *)
(***************************************************************************)
EXTENDS Integers, Sequences, FiniteSets, TLC

VARIABLES
    previous,   \* delta engine: the previous_snapshot argument
    current,    \* delta/ranking engine: the current_snapshot (mutated in place)
    deltas,     \* delta engine: last result of compute_deltas_all
    applyCount, \* delta engine: number of apply_deltas_to_snapshot calls made
    ranked,     \* ranking engine: last call of get_top_videos_by_metric
    world,      \* builder: API key and the outcome of every collaborator call
    built,      \* builder: result of the last build (snapshot or exception)
    file,       \* youtube_metrics.json (DATA_FILE_PATH)
    loaded,     \* last load_previous_data call of a reader and what followed
    guard,      \* last_option5_run.json (LAST_RUN_FILE)
    now,        \* datetime.now(), in minutes
    refreshToken, \* REFRESH_TOKEN of the web process
    procs,      \* position and locals of every request handler / the CLI loop
    response,   \* the last response sent or screen shown, and by whom
    nreq        \* number of refresh requests and menu choices started

coreVars == <<previous, current, deltas, applyCount, ranked>>
buildVars == <<world, built>>
storeVars == <<file, loaded>>
sysVars == <<guard, now, refreshToken, procs, response, nreq>>

vars == <<previous, current, deltas, applyCount, ranked, world, built, file, loaded,
          guard, now, refreshToken, procs, response, nreq>>

-----------------------------------------------------------------------------
(* Bounds *)

MaxEntities == 2      \* entities per input snapshot
MaxApply == 2         \* apply_deltas_to_snapshot calls per behaviour
MaxTopN == 3          \* largest top_n tried
MaxRequests == 3      \* requests (refresh, dashboard, CLI menu choices) per behaviour

-----------------------------------------------------------------------------
(* Python values *)

IntVal(n) == [t |-> "int", v |-> n]
FloatVal(h) == [t |-> "float", v |-> h]
NotAvailable == [t |-> "str", v |-> 0]
Absent == [t |-> "absent", v |-> 0]

isinstance_int(x) == x.t = "int"
isinstance_str(x) == x.t = "str"
dict_get(x, default) == IF x.t = "absent" THEN default ELSE x

\* numeric order of ints and 2-decimal floats, in hundredths
Num(x) == IF x.t = "float" THEN x.v ELSE x.v * 100

NoneSnap == [kind |-> "none"]
Snapshot(ts, vids) == [kind |-> "dict", timestamp |-> ts, hasVideos |-> TRUE, videos |-> vids]
DictWithoutVideos(ts) == [kind |-> "dict", timestamp |-> ts, hasVideos |-> FALSE, videos |-> <<>>]

MIN_VIEWS_FOR_DISPLAY == 25000

KeysOf(videos) == {videos[i].key : i \in 1..Len(videos)}
VideoAt(videos, k) == videos[CHOOSE i \in 1..Len(videos) : videos[i].key = k]

\* snapshot.get("videos", {})
get_videos(snapshot) == IF snapshot.hasVideos THEN snapshot.videos ELSE <<>>

-----------------------------------------------------------------------------
(* Delta engine *)

\* a new entity reported with zero growth instead of the sentinel
NADelta_zero(k) ==
    [key |-> k, views_delta |-> IntVal(0), likes_delta |-> IntVal(0),
     comments_delta |-> IntVal(0), subscribers_delta |-> IntVal(0)]

NADelta(k) ==
    [key |-> k, views_delta |-> NotAvailable, likes_delta |-> NotAvailable,
     comments_delta |-> NotAvailable, subscribers_delta |-> NotAvailable]

\* subscribers subtracted the wrong way round
MetricDelta_reversed(curr_metrics, prev_metrics) ==
    [key |-> curr_metrics.key,
     views_delta |-> IntVal(curr_metrics.views.v - prev_metrics.views.v),
     likes_delta |-> IntVal(curr_metrics.likes.v - prev_metrics.likes.v),
     comments_delta |-> IntVal(curr_metrics.comments.v - prev_metrics.comments.v),
     subscribers_delta |-> IntVal(dict_get(prev_metrics.subscribers, IntVal(0)).v
                                  - dict_get(curr_metrics.subscribers, IntVal(0)).v)]

\* the views delta added to the one the record already carries
MetricDelta_accumulating(curr_metrics, prev_metrics) ==
    [key |-> curr_metrics.key,
     views_delta |-> IntVal(curr_metrics.views.v - prev_metrics.views.v
                            + (IF isinstance_int(curr_metrics.views_delta)
                               THEN curr_metrics.views_delta.v ELSE 0)),
     likes_delta |-> IntVal(curr_metrics.likes.v - prev_metrics.likes.v),
     comments_delta |-> IntVal(curr_metrics.comments.v - prev_metrics.comments.v),
     subscribers_delta |-> IntVal(dict_get(curr_metrics.subscribers, IntVal(0)).v
                                  - dict_get(prev_metrics.subscribers, IntVal(0)).v)]

MetricDelta(curr_metrics, prev_metrics) ==
    [key |-> curr_metrics.key,
     views_delta |-> IntVal(curr_metrics.views.v - prev_metrics.views.v),
     likes_delta |-> IntVal(curr_metrics.likes.v - prev_metrics.likes.v),
     comments_delta |-> IntVal(curr_metrics.comments.v - prev_metrics.comments.v),
     subscribers_delta |-> IntVal(dict_get(curr_metrics.subscribers, IntVal(0)).v
                                  - dict_get(prev_metrics.subscribers, IntVal(0)).v)]

compute_deltas_all(previous_snapshot, current_snapshot) ==
    LET cur_videos == get_videos(current_snapshot) IN
    IF previous_snapshot.kind = "none" \/ ~previous_snapshot.hasVideos
    THEN [i \in 1..Len(cur_videos) |-> NADelta(cur_videos[i].key)]
    ELSE LET prev_videos == get_videos(previous_snapshot) IN
         [i \in 1..Len(cur_videos) |->
            IF cur_videos[i].key \in KeysOf(prev_videos)
            THEN MetricDelta(cur_videos[i], VideoAt(prev_videos, cur_videos[i].key))
            ELSE NADelta(cur_videos[i].key)]

\* round half to even of a / b, b > 0
RoundHalfEven(a, b) ==
    LET q == a \div b
        r == a % b
    IN  IF 2 * r < b THEN q
        ELSE IF 2 * r > b THEN q + 1
        ELSE IF q % 2 = 0 THEN q ELSE q + 1

\* round((views_delta / prev_views) * 100.0, 2), in hundredths
round_pct(views_delta, prev_views) == RoundHalfEven(views_delta * 10000, prev_views)

\* percentage taken of the current views instead of the previous views
views_delta_pct_of_current(cur, views_delta) ==
    IF isinstance_int(views_delta)
    THEN LET prev_views == cur.views.v - views_delta.v IN
         IF prev_views > 0 /\ cur.views.v > 0
         THEN FloatVal(round_pct(views_delta.v, cur.views.v))
         ELSE NotAvailable
    ELSE NotAvailable

views_delta_pct_of(cur, views_delta) ==
    IF isinstance_int(views_delta)
    THEN LET prev_views == cur.views.v - views_delta.v IN
         IF prev_views > 0
         THEN FloatVal(round_pct(views_delta.v, prev_views))
         ELSE NotAvailable
    ELSE NotAvailable

Enrich(cur, delta_vals) ==
    [cur EXCEPT !.views_delta = delta_vals.views_delta,
                !.likes_delta = delta_vals.likes_delta,
                !.comments_delta = delta_vals.comments_delta,
                !.subscribers_delta = delta_vals.subscribers_delta,
                !.views_delta_pct = views_delta_pct_of(cur, delta_vals.views_delta)]

\* entities found only in the previous snapshot kept in the result
apply_deltas_to_snapshot_carryforward(previous_snapshot, current_snapshot) ==
    IF current_snapshot.kind = "none" \/ ~current_snapshot.hasVideos
    THEN current_snapshot
    ELSE LET d == compute_deltas_all(previous_snapshot, current_snapshot)
             old == IF previous_snapshot.kind = "none" THEN <<>>
                    ELSE get_videos(previous_snapshot)
         IN  [current_snapshot EXCEPT !.videos =
                [i \in 1..Len(current_snapshot.videos) |->
                    Enrich(current_snapshot.videos[i], d[i])]
                \o SelectSeq(old, LAMBDA e : e.key \notin KeysOf(current_snapshot.videos))]

apply_deltas_to_snapshot(previous_snapshot, current_snapshot) ==
    IF current_snapshot.kind = "none" \/ ~current_snapshot.hasVideos
    THEN current_snapshot
    ELSE LET d == compute_deltas_all(previous_snapshot, current_snapshot) IN
         [current_snapshot EXCEPT !.videos =
            [i \in 1..Len(current_snapshot.videos) |->
                Enrich(current_snapshot.videos[i], d[i])]]

-----------------------------------------------------------------------------
(* Ranking engine *)

RankedRow(metrics, sort_value) ==
    [video_key |-> metrics.key, current_value |-> metrics.views, delta |-> sort_value]

\* the delta filter applied whatever the metric
Passes_alwaysdelta(metrics, metric) ==
    LET views == dict_get(metrics.views, IntVal(0)) IN
    /\ isinstance_int(views)
    /\ views.v >= MIN_VIEWS_FOR_DISPLAY
    /\ ~isinstance_str(dict_get(metrics.views_delta_pct, NotAvailable))

\* the loop body: does the entity produce a row under this metric
Passes(metrics, metric) ==
    LET views == dict_get(metrics.views, IntVal(0)) IN
    /\ isinstance_int(views)
    /\ views.v >= MIN_VIEWS_FOR_DISPLAY
    /\ \/ metric = "views"
       \/ ~isinstance_str(dict_get(metrics[metric], NotAvailable))

RECURSIVE CollectRows(_, _)
CollectRows(videos, metric) ==
    IF videos = <<>> THEN <<>>
    ELSE LET metrics == Head(videos)
             rest == CollectRows(Tail(videos), metric)
         IN  IF Passes(metrics, metric)
             THEN <<RankedRow(metrics, IF metric = "views" THEN metrics.views
                                        ELSE metrics[metric])>> \o rest
             ELSE rest

\* a descending sort that puts a row before the rows of equal value
RECURSIVE InsertDesc_unstable(_, _)
InsertDesc_unstable(sorted, r) ==
    IF sorted = <<>> THEN <<r>>
    ELSE IF Num(Head(sorted).delta) > Num(r.delta)
         THEN <<Head(sorted)>> \o InsertDesc_unstable(Tail(sorted), r)
         ELSE <<r>> \o sorted

\* list.sort(key=..., reverse=True): stable, descending
RECURSIVE InsertDesc(_, _)
InsertDesc(sorted, r) ==
    IF sorted = <<>> THEN <<r>>
    ELSE IF Num(Head(sorted).delta) >= Num(r.delta)
         THEN <<Head(sorted)>> \o InsertDesc(Tail(sorted), r)
         ELSE <<r>> \o sorted

RECURSIVE sort_desc(_)
sort_desc(rows) ==
    IF rows = <<>> THEN <<>>
    ELSE InsertDesc(sort_desc(SubSeq(rows, 1, Len(rows) - 1)), rows[Len(rows)])

Min(a, b) == IF a < b THEN a ELSE b

\* the sorted rows returned without the rows[:top_n] slice
get_top_videos_by_metric_untruncated(snapshot, metric, top_n) ==
    sort_desc(CollectRows(get_videos(snapshot), metric))

get_top_videos_by_metric(snapshot, metric, top_n) ==
    LET rows == sort_desc(CollectRows(get_videos(snapshot), metric))
    IN  SubSeq(rows, 1, Min(top_n, Len(rows)))

-----------------------------------------------------------------------------
(* Inputs of the pure engines *)

Keys == {"v1", "v2", "v3"}

\* base metrics of sampled entity records: views around the display
\* threshold and the scenario values of the documentation
MetricSamples ==
    { [views |-> 0,     likes |-> 1, comments |-> 2, subscribers |-> Absent],
      [views |-> 5000,  likes |-> 3, comments |-> 2, subscribers |-> IntVal(0)],
      [views |-> 40000, likes |-> 3, comments |-> 5, subscribers |-> IntVal(7)],
      [views |-> 44000, likes |-> 4, comments |-> 2, subscribers |-> Absent] }

RawEntity(k, vid, m) ==
    [key |-> k, video_id |-> vid, views |-> IntVal(m.views), likes |-> IntVal(m.likes),
     comments |-> IntVal(m.comments), subscribers |-> m.subscribers,
     views_delta |-> Absent, likes_delta |-> Absent, comments_delta |-> Absent,
     subscribers_delta |-> Absent, views_delta_pct |-> Absent]

RawEntities == {RawEntity(k, k, m) : k \in Keys, m \in MetricSamples}

DistinctKeys(videos) == \A i, j \in 1..Len(videos) : i # j => videos[i].key # videos[j].key

VideoLists ==
    {s \in UNION {[1..n -> RawEntities] : n \in 0..MaxEntities} : DistinctKeys(s)}

RawSnapshots == {Snapshot(0, s) : s \in VideoLists}

\* records whose "views" is missing or is not an int (a hand-edited file)
OddEntities ==
    {[RawEntity("v3", "v3", [views |-> 0, likes |-> 1, comments |-> 2, subscribers |-> Absent])
        EXCEPT !.views = x] : x \in {Absent, FloatVal(3000000), NotAvailable}}

OddSnapshots ==
    {Snapshot(0, <<o, e>>) : o \in OddEntities,
                            e \in {r \in RawEntities : r.key = "v1" /\ r.views.v >= 40000}}

PrevInputs == {NoneSnap, DictWithoutVideos(0)} \cup RawSnapshots

NoDeltas == [set |-> FALSE, videos |-> <<>>]
NoRanking == [set |-> FALSE, snapshot |-> NoneSnap, metric |-> "", top_n |-> 0, rows |-> <<>>]

Metrics == {"views", "views_delta", "views_delta_pct"}

-----------------------------------------------------------------------------
(* Exceptions leaving a function *)

NotRaised == ""
ConfigError == "RuntimeError"
CollabError == "CollaboratorError"

-----------------------------------------------------------------------------
(* Snapshot store *)

\* the file: absent, present but not readable as text (permissions, a
\* directory, bytes that are not UTF-8), empty or cut short by a writer,
\* text that is not JSON, or a JSON document
MissingFile == [st |-> "missing", doc |-> NoneSnap]
UnreadableFile == [st |-> "unreadable", doc |-> NoneSnap]
TruncatedFile == [st |-> "truncated", doc |-> NoneSnap]
InvalidJsonFile == [st |-> "invalid", doc |-> NoneSnap]
JsonFile(doc) == [st |-> "json", doc |-> doc]

JsonList == [kind |-> "list"]

load_previous_data(f) ==
    CASE f.st = "missing" -> [raised |-> NotRaised, value |-> NoneSnap]
      [] f.st = "unreadable" -> [raised |-> "OSError", value |-> NoneSnap]
      [] f.st \in {"truncated", "invalid"} -> [raised |-> NotRaised, value |-> NoneSnap]
      [] OTHER -> IF f.doc.kind = "dict"
                  THEN [raised |-> NotRaised, value |-> f.doc]
                  ELSE [raised |-> NotRaised, value |-> NoneSnap]

\* prev_metrics["views"] and the like on a record without the key: KeyError
delta_raises(previous_snapshot, current_snapshot) ==
    /\ previous_snapshot.kind = "dict"
    /\ previous_snapshot.hasVideos
    /\ \E i \in 1..Len(current_snapshot.videos), j \in 1..Len(previous_snapshot.videos) :
          /\ current_snapshot.videos[i].key = previous_snapshot.videos[j].key
          /\ \/ previous_snapshot.videos[j].views = Absent
             \/ previous_snapshot.videos[j].likes = Absent
             \/ previous_snapshot.videos[j].comments = Absent

NotLoaded == [done |-> FALSE, raised |-> NotRaised, saw |-> "", value |-> NoneSnap, after |-> ""]

-----------------------------------------------------------------------------
(* YouTube API helpers and snapshot builders *)

\* outcome of one HTTP call: a response, requests.HTTPError from
\* raise_for_status, or any other exception (connection error, timeout,
\* response that is not the expected JSON)
Outcomes == {"ok", "HTTPError", "OtherError"}

BATCH_SIZE == 50

\* what the API answers when a call succeeds
UploadsOf(channel_id) ==
    CASE channel_id = "UC1" -> <<"a">>
      [] channel_id = "UC2" -> <<"b">>
      [] channel_id = "UC3" -> <<"c">>
      [] OTHER -> <<>>

SearchResultOf(query) ==
    CASE query = "q1" -> <<"c", "d">>
      [] query = "q2" -> <<"d">>
      [] OTHER -> <<>>

BaseViews(vid) ==
    CASE vid = "a" -> 40000
      [] vid = "b" -> 0
      [] vid = "c" -> 26000
      [] vid = "d" -> 5000
      [] OTHER -> 30000

StatsOf(vid, t) ==
    [views |-> BaseViews(vid) + 4000 * (t \div 1440) + 10 * (t % 1440),
     likes |-> 3 + (t \div 1440), comments |-> 2, subscribers |-> IntVal(0)]

ChannelsCfg ==
    << [key |-> "hasan", channel_id |-> "UC1"],
       [key |-> "boyboy", channel_id |-> "UC2"],
       [key |-> "third", channel_id |-> "UC3"],
       [key |-> "noid", channel_id |-> ""] >>

\* (keyword key, query) in configuration order
KeywordQueries == << [key |-> "neuralink", query |-> "q1"],
                     [key |-> "neuralink", query |-> "q2"] >>

TRACKED_VIDEOS ==
    << [key |-> "hasan_x8d6K399WW4", video_id |-> "x8d6K399WW4"],
       [key |-> "boyboy_Sfrjpy5cJCs", video_id |-> "Sfrjpy5cJCs"] >>

\* stats_by_id after the batches from b on; HTTPError returns what was
\* collected so far, any other exception leaves the function
RECURSIVE StatsBatches(_, _, _, _)
StatsBatches(video_ids, batch_outcome, b, stats_by_id) ==
    IF (b - 1) * BATCH_SIZE >= Len(video_ids)
    THEN [raised |-> NotRaised, ids |-> stats_by_id]
    ELSE LET last == Min(b * BATCH_SIZE, Len(video_ids))
             batch == {video_ids[i] : i \in ((b - 1) * BATCH_SIZE + 1)..last}
         IN  CASE batch_outcome[b] = "HTTPError" -> [raised |-> NotRaised, ids |-> stats_by_id]
               [] batch_outcome[b] = "OtherError" -> [raised |-> CollabError, ids |-> {}]
               [] OTHER -> StatsBatches(video_ids, batch_outcome, b + 1, stats_by_id \cup batch)

fetch_youtube_stats_for_videos(api_key, video_ids, batch_outcome) ==
    IF ~api_key THEN [raised |-> ConfigError, ids |-> {}]
    ELSE StatsBatches(video_ids, batch_outcome, 1, {})

fetch_latest_video_ids_for_channel_via_playlist(api_key, channel_id, outcome) ==
    IF ~api_key THEN [raised |-> ConfigError, ids |-> <<>>]
    ELSE IF outcome # "ok" THEN [raised |-> CollabError, ids |-> <<>>]
    ELSE [raised |-> NotRaised, ids |-> UploadsOf(channel_id)]

fetch_video_ids_for_keyword(api_key, query, outcome) ==
    IF ~api_key THEN [raised |-> ConfigError, ids |-> <<>>]
    ELSE CASE outcome = "HTTPError" -> [raised |-> NotRaised, ids |-> <<>>]
           [] outcome = "OtherError" -> [raised |-> CollabError, ids |-> <<>>]
           [] OTHER -> [raised |-> NotRaised, ids |-> SearchResultOf(query)]

\* append the ids not yet in all_video_ids to video_meta_list
RECURSIVE AddIds(_, _, _, _)
AddIds(video_meta_list, ids, source_type, source_key) ==
    IF ids = <<>> THEN video_meta_list
    ELSE LET vid == Head(ids)
             seen == {video_meta_list[i].video_id : i \in 1..Len(video_meta_list)}
             next == IF vid \in seen THEN video_meta_list
                     ELSE Append(video_meta_list,
                                 [video_id |-> vid, source_type |-> source_type,
                                  source_key |-> source_key])
         IN  AddIds(next, Tail(ids), source_type, source_key)

RECURSIVE ScanChannels(_, _, _)
ScanChannels(i, w, video_meta_list) ==
    IF i > Len(ChannelsCfg) THEN video_meta_list
    ELSE LET ch == ChannelsCfg[i]
             r == fetch_latest_video_ids_for_channel_via_playlist(
                      w.api_key, ch.channel_id, w.chan[i])
         IN  IF ch.channel_id = "" \/ r.raised # NotRaised
             THEN ScanChannels(i + 1, w, video_meta_list)
             ELSE ScanChannels(i + 1, w, AddIds(video_meta_list, r.ids, "channel", ch.key))

RECURSIVE ScanKeywords(_, _, _)
ScanKeywords(j, w, video_meta_list) ==
    IF j > Len(KeywordQueries) THEN video_meta_list
    ELSE LET kw == KeywordQueries[j]
             r == fetch_video_ids_for_keyword(w.api_key, kw.query, w.kw[j])
         IN  IF r.raised # NotRaised
             THEN ScanKeywords(j + 1, w, video_meta_list)
             ELSE ScanKeywords(j + 1, w, AddIds(video_meta_list, r.ids, "keyword", kw.key))

VideoKey(meta) == meta.source_type \o "_" \o meta.source_key \o "_" \o meta.video_id

RECURSIVE EntitiesOf(_, _, _)
EntitiesOf(video_meta_list, stats_ids, t) ==
    IF video_meta_list = <<>> THEN <<>>
    ELSE LET meta == Head(video_meta_list)
             rest == EntitiesOf(Tail(video_meta_list), stats_ids, t)
         IN  IF meta.video_id \in stats_ids
             THEN <<RawEntity(VideoKey(meta), meta.video_id, StatsOf(meta.video_id, t))>> \o rest
             ELSE rest

\* result of a build: the exception that left it, or the snapshot returned
Raise(err) == [raised |-> err, snapshot |-> NoneSnap]
Return(snapshot) == [raised |-> NotRaised, snapshot |-> snapshot]

build_snapshot_from_channels_and_keywords(w, t) ==
    IF ~w.api_key THEN Raise(ConfigError)
    ELSE LET video_meta_list == ScanKeywords(1, w, ScanChannels(1, w, <<>>))
             all_video_ids_list == [i \in 1..Len(video_meta_list) |-> video_meta_list[i].video_id]
         IN  IF video_meta_list = <<>> THEN Return(Snapshot(t, <<>>))
             ELSE LET stats == fetch_youtube_stats_for_videos(w.api_key, all_video_ids_list, w.stats)
                  IN  IF stats.raised # NotRaised THEN Raise(stats.raised)
                      ELSE Return(Snapshot(t, EntitiesOf(video_meta_list, stats.ids, t)))

TrackedMeta ==
    [i \in 1..Len(TRACKED_VIDEOS) |->
        [video_id |-> TRACKED_VIDEOS[i].video_id, key |-> TRACKED_VIDEOS[i].key]]

RECURSIVE TrackedEntities(_, _, _)
TrackedEntities(tracked, stats_ids, t) ==
    IF tracked = <<>> THEN <<>>
    ELSE LET meta == Head(tracked)
             rest == TrackedEntities(Tail(tracked), stats_ids, t)
         IN  IF meta.video_id \in stats_ids
             THEN <<RawEntity(meta.key, meta.video_id, StatsOf(meta.video_id, t))>> \o rest
             ELSE rest

fetch_current_snapshot_from_youtube(tracked_videos, w, t) ==
    IF ~w.api_key THEN Raise(ConfigError)
    ELSE LET video_ids == [i \in 1..Len(tracked_videos) |-> tracked_videos[i].video_id]
             stats == fetch_youtube_stats_for_videos(w.api_key, video_ids, w.stats)
         IN  IF stats.raised # NotRaised THEN Raise(stats.raised)
             ELSE Return(Snapshot(t, TrackedEntities(tracked_videos, stats.ids, t)))

MaxBatches == 2

\* video id lists of 0 to MaxBatches batches, full and by one id over
IdList(n) == [i \in 1..n |-> "vid" \o ToString(i)]

ListLengths ==
    {0, 3} \cup {BATCH_SIZE * k : k \in 1..MaxBatches}
           \cup {BATCH_SIZE * k + 1 : k \in 1..(MaxBatches - 1)}

Worlds ==
    [api_key : BOOLEAN,
     chan : [1..Len(ChannelsCfg) -> Outcomes],
     kw : [1..Len(KeywordQueries) -> Outcomes],
     stats : [1..MaxBatches -> Outcomes]]

NoWorld == [api_key |-> TRUE, chan |-> [i \in 1..Len(ChannelsCfg) |-> "ok"],
            kw |-> [j \in 1..Len(KeywordQueries) |-> "ok"],
            stats |-> [b \in 1..MaxBatches |-> "ok"]]

NotBuilt == [builder |-> "", raised |-> NotRaised, snapshot |-> NoneSnap]

-----------------------------------------------------------------------------
(* Refresh callers: the web endpoint and the CLI menu *)

WebProcs == {"web1", "web2"}
Procs == WebProcs \cup {"cli"}

\* sampled instants, in minutes: a first run, 10 minutes later, a day later
Instants == {0, 10, 1440}

WEB_GUARD_MINUTES == 1440     \* timedelta(hours=24)
CLI_GUARD_MINUTES == 1        \* timedelta(minutes=1)

Tokens == {"s3cret", "wrong"}

NoGuard == [st |-> "missing", last_run |-> 0]
GuardAt(t) == [st |-> "json", last_run |-> t]

\* every caller guarded by the CLI's one-minute interval
RecentlyRun_oneminute(g, t, interval) == g.st = "json" /\ t - g.last_run < CLI_GUARD_MINUTES

\* get_last_option5_run() is not None and elapsed < interval
RecentlyRun(g, t, interval) == g.st = "json" /\ t - g.last_run < interval

\* a handler's position and locals: last_run is what it read from the guard
\* file, saved whether its save_current_data wrote a snapshot with videos
IdleProc ==
    [pc |-> "idle", opt |-> "", token |-> "", cur |-> NoneSnap, saw |-> "",
     ranBuild |-> FALSE, emptyBuild |-> FALSE, last_run |-> NoGuard, saved |-> FALSE]

NoResponse ==
    [proc |-> "", opt |-> "", token |-> "", status |-> "", saw |-> "",
     ranBuild |-> FALSE, emptyBuild |-> FALSE, saved |-> FALSE]

\* the handler of request r returns with this status
Respond(p, r, status) ==
    [proc |-> p, opt |-> r.opt, token |-> r.token, status |-> status, saw |-> r.saw,
     ranBuild |-> r.ranBuild, emptyBuild |-> r.emptyBuild, saved |-> r.saved]

\* no web process, no CLI session
SysIdle ==
    /\ guard = NoGuard
    /\ now = 0
    /\ refreshToken = ""
    /\ procs = [p \in Procs |-> IdleProc]
    /\ response = NoResponse
    /\ nreq = 0

\* collaborator outcomes the refresh callers meet
AllOk == NoWorld
SysWorlds ==
    { AllOk,
      [AllOk EXCEPT !.stats[1] = "HTTPError"],
      [AllOk EXCEPT !.stats[1] = "OtherError"],
      [AllOk EXCEPT !.api_key = FALSE] }

HasVideos(snapshot) == snapshot.hasVideos /\ snapshot.videos # <<>>

Begin(opt, token) ==
    [IdleProc EXCEPT !.opt = opt, !.token = token]

SavePcs == {"save_open", "save_dump"}

-----------------------------------------------------------------------------
(* Delta engine specification: any previous/current pair, then calls *)

InitDelta ==
    /\ previous \in PrevInputs
    /\ current \in RawSnapshots
    /\ deltas = NoDeltas
    /\ applyCount = 0
    /\ ranked = NoRanking
    /\ world = NoWorld
    /\ built = NotBuilt
    /\ file = MissingFile
    /\ loaded = NotLoaded
    /\ SysIdle

ComputeDeltas ==
    /\ deltas' = [set |-> TRUE, videos |-> compute_deltas_all(previous, current)]
    /\ UNCHANGED <<previous, current, applyCount, ranked, buildVars, storeVars, sysVars>>

ApplyDeltas ==
    /\ applyCount < MaxApply
    /\ current' = apply_deltas_to_snapshot(previous, current)
    /\ applyCount' = applyCount + 1
    /\ UNCHANGED <<previous, deltas, ranked, buildVars, storeVars, sysVars>>

NextDelta == ComputeDeltas \/ ApplyDeltas

SpecDelta == InitDelta /\ [][NextDelta]_vars

-----------------------------------------------------------------------------
(* Ranking engine specification: raw, first-run and compared snapshots *)

\* a stored baseline: v1 with views, v2 with a zero view count, v3 not tracked
BaselineSnap ==
    Snapshot(0, << RawEntity("v1", "v1", [views |-> 40000, likes |-> 3, comments |-> 5,
                                    subscribers |-> IntVal(7)]),
                   RawEntity("v2", "v2", [views |-> 0, likes |-> 1, comments |-> 2,
                                    subscribers |-> Absent]) >>)

InitRank ==
    /\ previous \in {NoneSnap, BaselineSnap}
    /\ current \in RawSnapshots \cup OddSnapshots
    /\ deltas = NoDeltas
    /\ applyCount = 0
    /\ ranked = NoRanking
    /\ world = NoWorld
    /\ built = NotBuilt
    /\ file = MissingFile
    /\ loaded = NotLoaded
    /\ SysIdle

ApplyOnce ==
    /\ applyCount = 0
    /\ current' = apply_deltas_to_snapshot(previous, current)
    /\ applyCount' = 1
    /\ UNCHANGED <<previous, deltas, ranked, buildVars, storeVars, sysVars>>

Rank(metric, top_n) ==
    /\ ranked' = [set |-> TRUE, snapshot |-> current, metric |-> metric, top_n |-> top_n,
                  rows |-> get_top_videos_by_metric(current, metric, top_n)]
    /\ UNCHANGED <<previous, current, deltas, applyCount, buildVars, storeVars, sysVars>>

NextRank ==
    \/ ApplyOnce
    \/ \E metric \in Metrics, top_n \in 0..MaxTopN : Rank(metric, top_n)

SpecRank == InitRank /\ [][NextRank]_vars

-----------------------------------------------------------------------------
(* Builder specification: every pattern of collaborator outcomes *)

InitBuild ==
    /\ previous = NoneSnap
    /\ current = NoneSnap
    /\ deltas = NoDeltas
    /\ applyCount = 0
    /\ ranked = NoRanking
    /\ world \in Worlds
    /\ built = NotBuilt
    /\ file = MissingFile
    /\ loaded = NotLoaded
    /\ SysIdle

BuildFromConfig ==
    /\ built' = [builder |-> "channels_and_keywords"]
                   @@ build_snapshot_from_channels_and_keywords(world, 0)
    /\ UNCHANGED <<coreVars, world, storeVars, sysVars>>

BuildFromFixedList ==
    /\ built' = [builder |-> "fixed_list"]
                   @@ fetch_current_snapshot_from_youtube(TRACKED_VIDEOS, world, 0)
    /\ UNCHANGED <<coreVars, world, storeVars, sysVars>>

\* fetch_youtube_stats_for_videos called on a list of n ids
FetchStats(n) ==
    /\ LET video_ids == IdList(n)
           r == fetch_youtube_stats_for_videos(world.api_key, video_ids, world.stats)
       IN  built' = [builder |-> "fetch_youtube_stats_for_videos", raised |-> r.raised,
                     snapshot |-> NoneSnap, video_ids |-> video_ids, ids |-> r.ids]
    /\ UNCHANGED <<coreVars, world, storeVars, sysVars>>

NextBuild ==
    \/ BuildFromConfig
    \/ BuildFromFixedList
    \/ \E n \in ListLengths : FetchStats(n)

SpecBuild == InitBuild /\ [][NextBuild]_vars

-----------------------------------------------------------------------------
(* Store specification: a caller loads whatever is on disk and goes on *)

\* a stored record that lost its base metrics
BrokenEntity(k) ==
    [RawEntity(k, k, [views |-> 0, likes |-> 0, comments |-> 0, subscribers |-> Absent])
        EXCEPT !.views = Absent, !.likes = Absent, !.comments = Absent]

FileStates ==
    {MissingFile, UnreadableFile, TruncatedFile, InvalidJsonFile, JsonFile(JsonList),
     JsonFile(DictWithoutVideos(0)), JsonFile(Snapshot(0, <<BrokenEntity("v1")>>))}
      \cup {JsonFile(d) : d \in RawSnapshots}

FreshSnapshots ==
    {Snapshot(10, <<RawEntity("v1", "v1", m)>>) : m \in MetricSamples}

InitLoad ==
    /\ previous = NoneSnap
    /\ current \in FreshSnapshots
    /\ deltas = NoDeltas
    /\ applyCount = 0
    /\ ranked = NoRanking
    /\ world = NoWorld
    /\ built = NotBuilt
    /\ file \in FileStates
    /\ loaded = NotLoaded
    /\ SysIdle

Load ==
    /\ ~loaded.done
    /\ LET r == load_previous_data(file) IN
       /\ loaded' = [done |-> TRUE, raised |-> r.raised, saw |-> file.st,
                     value |-> r.value, after |-> ""]
       /\ previous' = r.value
    /\ UNCHANGED <<current, deltas, applyCount, ranked, buildVars, file, sysVars>>

\* previous_snapshot = load_previous_data();
\* current_snapshot = apply_deltas_to_snapshot(previous_snapshot, current_snapshot)
ProceedWithDeltas ==
    /\ loaded.done
    /\ loaded.raised = NotRaised
    /\ loaded.after = ""
    /\ IF delta_raises(previous, current)
       THEN /\ loaded' = [loaded EXCEPT !.after = "KeyError"]
            /\ UNCHANGED <<current, applyCount>>
       ELSE /\ loaded' = [loaded EXCEPT !.after = "ok"]
            /\ current' = apply_deltas_to_snapshot(previous, current)
            /\ applyCount' = applyCount + 1
    /\ UNCHANGED <<previous, deltas, ranked, buildVars, file, sysVars>>

NextLoad == Load \/ ProceedWithDeltas

SpecLoad == InitLoad /\ [][NextLoad]_vars

-----------------------------------------------------------------------------
(* System specification: concurrent web requests, the CLI and the dashboard *)

Init ==
    /\ previous = NoneSnap
    /\ current = NoneSnap
    /\ deltas = NoDeltas
    /\ applyCount = 0
    /\ ranked = NoRanking
    /\ world = NoWorld
    /\ built = NotBuilt
    /\ file = MissingFile
    /\ loaded = NotLoaded
    /\ guard = NoGuard
    /\ now = 0
    /\ refreshToken \in {"", "s3cret"}
    /\ procs = [p \in Procs |-> IdleProc]
    /\ response = NoResponse
    /\ nreq = 0

Tick ==
    /\ \E t \in Instants : t > now /\ now' = t
    /\ UNCHANGED <<coreVars, buildVars, storeVars, guard, refreshToken, procs, response, nreq>>

\* the handler running as p goes on to pc with locals r
Continue(p, r, pc) ==
    /\ procs' = [procs EXCEPT ![p] = [r EXCEPT !.pc = pc]]
    /\ UNCHANGED response

\* the handler running as p returns (or is left by an exception)
Finish(p, r, status) ==
    /\ procs' = [procs EXCEPT ![p] = IdleProc]
    /\ response' = Respond(p, r, status)

\* the token compared before the configuration check
WebRefreshBegin_tokenfirst(p, token) ==
    /\ procs[p].pc = "idle"
    /\ p = "web2" => procs["web1"].pc # "idle"
    /\ nreq < MaxRequests
    /\ nreq' = nreq + 1
    /\ LET r == Begin("web", token) IN
       IF token # refreshToken THEN Finish(p, r, "http_403")
       ELSE IF refreshToken = "" THEN Finish(p, r, "http_500")
       ELSE IF RecentlyRun(guard, now, WEB_GUARD_MINUTES) THEN Finish(p, r, "skipped_recent")
       ELSE Continue(p, [r EXCEPT !.last_run = guard], "build")
    /\ UNCHANGED <<coreVars, buildVars, storeVars, guard, now, refreshToken>>

\* refresh_snapshot(token) up to the guard
WebRefreshBegin(p, token) ==
    /\ procs[p].pc = "idle"
    /\ p = "web2" => procs["web1"].pc # "idle"   \* a second thread when the first is busy
    /\ nreq < MaxRequests
    /\ nreq' = nreq + 1
    /\ LET r == Begin("web", token) IN
       IF refreshToken = "" THEN Finish(p, r, "http_500")
       ELSE IF token # refreshToken THEN Finish(p, r, "http_403")
       ELSE IF RecentlyRun(guard, now, WEB_GUARD_MINUTES) THEN Finish(p, r, "skipped_recent")
       ELSE Continue(p, [r EXCEPT !.last_run = guard], "build")
    /\ UNCHANGED <<coreVars, buildVars, storeVars, guard, now, refreshToken>>

\* the guard timestamp written as soon as the build returns, before the
\* empty check
WebRefreshBuild_stampfirst(p, w) ==
    /\ procs[p].pc = "build"
    /\ procs[p].opt = "web"
    /\ LET prev == load_previous_data(file)
           b == build_snapshot_from_channels_and_keywords(w, now)
           r == [procs[p] EXCEPT !.saw = file.st]
       IN  IF prev.raised # NotRaised
           THEN Finish(p, r, "http_500") /\ UNCHANGED guard
           ELSE IF b.raised # NotRaised
           THEN Finish(p, [r EXCEPT !.ranBuild = TRUE], "http_500") /\ UNCHANGED guard
           ELSE IF ~HasVideos(b.snapshot)
           THEN /\ Finish(p, [r EXCEPT !.ranBuild = TRUE, !.emptyBuild = TRUE], "error_no_videos")
                /\ guard' = GuardAt(now)
           ELSE /\ Continue(p, [r EXCEPT !.ranBuild = TRUE,
                                         !.cur = apply_deltas_to_snapshot(prev.value, b.snapshot)],
                            "save_open")
                /\ guard' = GuardAt(now)
    /\ UNCHANGED <<coreVars, buildVars, storeVars, now, refreshToken, nreq>>

\* prev = load_previous_data(); current = build...(); empty check; apply
WebRefreshBuild(p, w) ==
    /\ procs[p].pc = "build"
    /\ procs[p].opt = "web"
    /\ LET prev == load_previous_data(file)
           b == build_snapshot_from_channels_and_keywords(w, now)
           r == [procs[p] EXCEPT !.saw = file.st]
       IN  IF prev.raised # NotRaised
           THEN Finish(p, r, "http_500")
           ELSE IF b.raised # NotRaised
           THEN Finish(p, [r EXCEPT !.ranBuild = TRUE], "http_500")
           ELSE IF ~HasVideos(b.snapshot)
           THEN Finish(p, [r EXCEPT !.ranBuild = TRUE, !.emptyBuild = TRUE], "error_no_videos")
           ELSE Continue(p, [r EXCEPT !.ranBuild = TRUE,
                                      !.cur = apply_deltas_to_snapshot(prev.value, b.snapshot)],
                         "save_open")
    /\ UNCHANGED <<coreVars, buildVars, storeVars, guard, now, refreshToken, nreq>>

\* main_menu, choice "4": load, fetch the fixed list, apply, then save
CliOption4(w) ==
    /\ procs["cli"].pc = "idle"
    /\ nreq < MaxRequests
    /\ nreq' = nreq + 1
    /\ LET prev == load_previous_data(file)
           b == fetch_current_snapshot_from_youtube(TRACKED_VIDEOS, w, now)
           r == [Begin("4", "") EXCEPT !.saw = file.st]
       IN  IF prev.raised # NotRaised
           THEN Finish("cli", r, "raised")
           ELSE IF b.raised # NotRaised
           THEN Finish("cli", [r EXCEPT !.ranBuild = TRUE], "raised")
           ELSE Continue("cli", [r EXCEPT !.ranBuild = TRUE,
                                          !.emptyBuild = ~HasVideos(b.snapshot),
                                          !.cur = apply_deltas_to_snapshot(prev.value, b.snapshot)],
                         "save_open")
    /\ UNCHANGED <<coreVars, buildVars, storeVars, guard, now, refreshToken>>

\* main_menu, choice "5", up to the guard
CliOption5Begin ==
    /\ procs["cli"].pc = "idle"
    /\ nreq < MaxRequests
    /\ nreq' = nreq + 1
    /\ LET r == Begin("5", "") IN
       IF RecentlyRun(guard, now, CLI_GUARD_MINUTES)
       THEN Finish("cli", r, "skipped")
       ELSE Continue("cli", [r EXCEPT !.last_run = guard], "build")
    /\ UNCHANGED <<coreVars, buildVars, storeVars, guard, now, refreshToken>>

\* main_menu, choice "5": build, empty check, load, apply
CliOption5Build(w) ==
    /\ procs["cli"].pc = "build"
    /\ procs["cli"].opt = "5"
    /\ LET b == build_snapshot_from_channels_and_keywords(w, now)
           prev == load_previous_data(file)
           r == [procs["cli"] EXCEPT !.ranBuild = TRUE]
       IN  IF b.raised # NotRaised
           THEN Finish("cli", r, "raised")
           ELSE IF ~HasVideos(b.snapshot)
           THEN Finish("cli", [r EXCEPT !.emptyBuild = TRUE], "no_videos")
           ELSE IF prev.raised # NotRaised
           THEN Finish("cli", [r EXCEPT !.saw = file.st], "raised")
           ELSE Continue("cli", [r EXCEPT !.saw = file.st,
                                          !.cur = apply_deltas_to_snapshot(prev.value, b.snapshot)],
                         "save_open")
    /\ UNCHANGED <<coreVars, buildVars, storeVars, guard, now, refreshToken, nreq>>

\* save_current_data: open(DATA_FILE_PATH, "w") empties the file
SaveOpen(p) ==
    /\ procs[p].pc = "save_open"
    /\ file' = TruncatedFile
    /\ Continue(p, procs[p], "save_dump")
    /\ UNCHANGED <<coreVars, buildVars, loaded, guard, now, refreshToken, nreq>>

\* what the file holds once p's buffered text is written at offset 0: a
\* longer document written meanwhile by another writer keeps its tail
Written(f, doc) ==
    IF f.st = "json" /\ Len(f.doc.videos) > Len(doc.videos)
    THEN InvalidJsonFile
    ELSE JsonFile(doc)

\* save_current_data: json.dump and the close that writes the text out.
\* After the write the caller only reads the document for its reply text,
\* so the local is dropped here.
SaveDump(p) ==
    /\ procs[p].pc = "save_dump"
    /\ file' = Written(file, procs[p].cur)
    /\ LET r == [procs[p] EXCEPT !.cur = NoneSnap, !.saved = HasVideos(procs[p].cur)] IN
       IF procs[p].opt = "4"
       THEN Finish(p, r, "shown")
       ELSE Continue(p, r, "set_guard")
    /\ UNCHANGED <<coreVars, buildVars, loaded, guard, now, refreshToken, nreq>>

\* save_current_data: the write fails (OSError) and the handler is left
SaveFail(p) ==
    /\ procs[p].pc = "save_dump"
    /\ Finish(p, procs[p], IF procs[p].opt = "web" THEN "http_500" ELSE "raised")
    /\ UNCHANGED <<coreVars, buildVars, storeVars, guard, now, refreshToken, nreq>>

\* set_last_option5_run() and the response
SetLastRun(p) ==
    /\ procs[p].pc = "set_guard"
    /\ guard' = GuardAt(now)
    /\ Finish(p, procs[p], IF procs[p].opt = "web" THEN "ok" ELSE "shown")
    /\ UNCHANGED <<coreVars, buildVars, storeVars, now, refreshToken, nreq>>

\* index(): the dashboard reads the stored snapshot and lists it, or shows
\* nothing when the load gave None or no videos
Index ==
    /\ LET prev == load_previous_data(file)
           r == [Begin("index", "") EXCEPT !.saw = file.st]
       IN  response' = Respond("dashboard", r,
                          IF prev.raised # NotRaised THEN "http_500"
                          ELSE IF prev.value = NoneSnap \/ ~HasVideos(prev.value)
                               THEN "no_list" ELSE "top_list")
    /\ nreq < MaxRequests
    /\ nreq' = nreq + 1
    /\ UNCHANGED <<coreVars, buildVars, storeVars, guard, now, refreshToken, procs>>

Next ==
    \/ Tick
    \/ \E p \in WebProcs, token \in Tokens : WebRefreshBegin(p, token)
    \/ \E p \in WebProcs, w \in SysWorlds : WebRefreshBuild(p, w)
    \/ \E w \in SysWorlds : CliOption4(w)
    \/ CliOption5Begin
    \/ \E w \in SysWorlds : CliOption5Build(w)
    \/ \E p \in Procs : SaveOpen(p)
    \/ \E p \in Procs : SaveDump(p)
    \/ \E p \in Procs : SaveFail(p)
    \/ \E p \in Procs : SetLastRun(p)
    \/ Index

Spec == Init /\ [][Next]_vars

-----------------------------------------------------------------------------
(* Cycle specification: refresh cycles run one after another, each handler *)
(* from its guard to its response                                          *)

\* collaborator outcomes of a cycle: a channel or a keyword search that
\* fails drops its videos from that cycle's build
CycleWorlds ==
    { AllOk,
      [AllOk EXCEPT !.chan[1] = "HTTPError"],
      [AllOk EXCEPT !.kw[1] = "HTTPError"],
      [AllOk EXCEPT !.stats[1] = "HTTPError"] }

InitCycles ==
    /\ previous = NoneSnap
    /\ current = NoneSnap
    /\ deltas = NoDeltas
    /\ applyCount = 0
    /\ ranked = NoRanking
    /\ world = NoWorld
    /\ built = NotBuilt
    /\ file = MissingFile
    /\ loaded = NotLoaded
    /\ guard = NoGuard
    /\ now = 0
    /\ refreshToken = "s3cret"
    /\ procs = [p \in Procs |-> IdleProc]
    /\ response = NoResponse
    /\ nreq = 0

\* the handler ends without a save
EndCycle(p, r, status) ==
    /\ response' = Respond(p, r, status)
    /\ UNCHANGED <<previous, current, built, file, guard>>

\* apply_deltas_to_snapshot, save_current_data and, when stamp,
\* set_last_option5_run
SaveCycle(p, r, prev, b, stamp, status) ==
    LET cur == apply_deltas_to_snapshot(prev, b.snapshot) IN
    /\ previous' = prev
    /\ built' = [builder |-> r.opt] @@ b
    /\ current' = cur
    /\ file' = JsonFile(cur)
    /\ guard' = IF stamp THEN GuardAt(now) ELSE guard
    /\ response' = Respond(p, [r EXCEPT !.ranBuild = TRUE, !.saved = HasVideos(cur)], status)

\* refresh_snapshot(token) with the configured token
WebCycle(w) ==
    /\ nreq < MaxRequests
    /\ nreq' = nreq + 1
    /\ LET r == Begin("web", refreshToken)
           prev == load_previous_data(file)
           b == build_snapshot_from_channels_and_keywords(w, now)
       IN  IF RecentlyRun(guard, now, WEB_GUARD_MINUTES) THEN EndCycle("web1", r, "skipped_recent")
           ELSE IF prev.raised # NotRaised \/ b.raised # NotRaised
           THEN EndCycle("web1", r, "http_500")
           ELSE IF ~HasVideos(b.snapshot) THEN EndCycle("web1", r, "error_no_videos")
           ELSE SaveCycle("web1", r, prev.value, b, TRUE, "ok")
    /\ UNCHANGED <<deltas, applyCount, ranked, world, loaded, now, refreshToken, procs>>

\* main_menu, choice "5"
Option5Cycle(w) ==
    /\ nreq < MaxRequests
    /\ nreq' = nreq + 1
    /\ LET r == Begin("5", "")
           b == build_snapshot_from_channels_and_keywords(w, now)
           prev == load_previous_data(file)
       IN  IF RecentlyRun(guard, now, CLI_GUARD_MINUTES) THEN EndCycle("cli", r, "skipped")
           ELSE IF b.raised # NotRaised THEN EndCycle("cli", r, "raised")
           ELSE IF ~HasVideos(b.snapshot) THEN EndCycle("cli", r, "no_videos")
           ELSE IF prev.raised # NotRaised THEN EndCycle("cli", r, "raised")
           ELSE SaveCycle("cli", r, prev.value, b, TRUE, "shown")
    /\ UNCHANGED <<deltas, applyCount, ranked, world, loaded, now, refreshToken, procs>>

\* main_menu, choice "4"
Option4Cycle(w) ==
    /\ nreq < MaxRequests
    /\ nreq' = nreq + 1
    /\ LET r == Begin("4", "")
           prev == load_previous_data(file)
           b == fetch_current_snapshot_from_youtube(TRACKED_VIDEOS, w, now)
       IN  IF prev.raised # NotRaised \/ b.raised # NotRaised
           THEN EndCycle("cli", r, "raised")
           ELSE SaveCycle("cli", r, prev.value, b, FALSE, "shown")
    /\ UNCHANGED <<deltas, applyCount, ranked, world, loaded, now, refreshToken, procs>>

NextCycles ==
    \/ Tick
    \/ \E w \in CycleWorlds : WebCycle(w)
    \/ \E w \in CycleWorlds : Option5Cycle(w)
    \/ \E w \in CycleWorlds : Option4Cycle(w)

SpecCycles == InitCycles /\ [][NextCycles]_vars

-----------------------------------------------------------------------------
(* Properties of the delta engine *)

InBoth(k) ==
    /\ previous.kind = "dict"
    /\ previous.hasVideos
    /\ k \in KeysOf(previous.videos)
    /\ k \in KeysOf(current.videos)

DeltaOf(k) == VideoAt(deltas.videos, k)

OrZero(x) == IF x.t = "absent" THEN 0 ELSE x.v

\* C1: for every key present in both snapshots compute_deltas_all yields
\* current - previous for views, likes, comments and subscribers, a missing
\* subscribers field counting as 0.
C1_DeltasAreDifferences ==
    deltas.set =>
        \A k \in Keys : InBoth(k) =>
            LET c == VideoAt(current.videos, k)
                p == VideoAt(previous.videos, k)
            IN  /\ k \in KeysOf(deltas.videos)
                /\ DeltaOf(k).views_delta = IntVal(c.views.v - p.views.v)
                /\ DeltaOf(k).likes_delta = IntVal(c.likes.v - p.likes.v)
                /\ DeltaOf(k).comments_delta = IntVal(c.comments.v - p.comments.v)
                /\ DeltaOf(k).subscribers_delta =
                       IntVal(OrZero(c.subscribers) - OrZero(p.subscribers))

C1_Witness ==
    /\ deltas.set
    /\ \E k \in Keys :
        /\ InBoth(k)
        /\ DeltaOf(k).views_delta = IntVal(4000)
        /\ DeltaOf(k).likes_delta = IntVal(1)
        /\ DeltaOf(k).comments_delta = IntVal(-3)
        /\ VideoAt(current.videos, k).subscribers = Absent
        /\ DeltaOf(k).subscribers_delta = IntVal(-7)

AllNotAvailable(d) ==
    /\ d.views_delta = NotAvailable
    /\ d.likes_delta = NotAvailable
    /\ d.comments_delta = NotAvailable
    /\ d.subscribers_delta = NotAvailable

\* C2: an entity only in the current snapshot, and every entity when the
\* previous snapshot is absent or has no entities, gets NotAvailable for all
\* four deltas.
C2_NewEntitiesNotAvailable ==
    deltas.set =>
        \A k \in KeysOf(current.videos) :
            ~InBoth(k) => k \in KeysOf(deltas.videos) /\ AllNotAvailable(DeltaOf(k))

C2_Witness ==
    /\ deltas.set
    /\ \E k1, k2 \in KeysOf(current.videos) :
        /\ InBoth(k1)
        /\ ~InBoth(k2)
        /\ AllNotAvailable(DeltaOf(k2))
        /\ ~AllNotAvailable(DeltaOf(k1))

\* C3: after apply_deltas_to_snapshot views_delta_pct is NotAvailable when
\* views_delta is NotAvailable or the baseline current.views - views_delta is
\* <= 0; otherwise the baseline is the previous snapshot's views and the
\* value is views_delta / baseline * 100 to the nearest hundredth.
C3_PercentOfBaseline ==
    applyCount >= 1 =>
        \A i \in 1..Len(current.videos) :
            LET c == current.videos[i] IN
            IF c.views_delta = NotAvailable
            THEN c.views_delta_pct = NotAvailable /\ ~InBoth(c.key)
            ELSE LET prev_views == c.views.v - c.views_delta.v IN
                 /\ InBoth(c.key)
                 /\ prev_views = VideoAt(previous.videos, c.key).views.v
                 /\ IF prev_views <= 0
                    THEN c.views_delta_pct = NotAvailable
                    ELSE /\ c.views_delta_pct.t = "float"
                         /\ LET err == c.views_delta_pct.v * prev_views
                                         - c.views_delta.v * 10000
                            IN  2 * err <= prev_views /\ 2 * err >= -prev_views

C3_Witness ==
    /\ applyCount >= 1
    /\ \E i, j \in 1..Len(current.videos) :
        /\ current.videos[i].views = IntVal(44000)
        /\ current.videos[i].views_delta = IntVal(4000)
        /\ current.videos[i].views_delta_pct = FloatVal(1000)
        /\ current.videos[j].views = IntVal(5000)
        /\ current.videos[j].views_delta = IntVal(5000)
        /\ current.videos[j].views_delta_pct = NotAvailable

\* C16: with the previous snapshot fixed, applying
\* apply_deltas_to_snapshot again to its own output changes nothing: every
\* entity keeps its raw deltas and its views_delta_pct (and its base metrics).
C16_ApplyTwiceChangesNothing ==
    [][ (applyCount >= 1 /\ applyCount' = applyCount + 1) =>
            /\ Len(current'.videos) = Len(current.videos)
            /\ \A i \in 1..Len(current.videos) :
                  /\ current'.videos[i].views_delta = current.videos[i].views_delta
                  /\ current'.videos[i].likes_delta = current.videos[i].likes_delta
                  /\ current'.videos[i].comments_delta = current.videos[i].comments_delta
                  /\ current'.videos[i].subscribers_delta = current.videos[i].subscribers_delta
                  /\ current'.videos[i].views_delta_pct = current.videos[i].views_delta_pct
                  /\ current'.videos[i].views = current.videos[i].views
                  /\ current'.videos[i].likes = current.videos[i].likes
                  /\ current'.videos[i].comments = current.videos[i].comments
                  /\ current'.videos[i].subscribers = current.videos[i].subscribers
      ]_vars

\* applied twice: one entity with concrete deltas, one without a baseline
C16_Witness ==
    /\ applyCount = 2
    /\ \E i, j \in 1..Len(current.videos) :
        /\ current.videos[i].views_delta = IntVal(4000)
        /\ current.videos[i].views_delta_pct = FloatVal(1000)
        /\ current.videos[i].subscribers_delta = IntVal(-7)
        /\ current.videos[j].views_delta = NotAvailable
        /\ current.videos[j].views_delta_pct = NotAvailable

-----------------------------------------------------------------------------
(* Properties of the ranking engine *)

Eligible(snapshot) ==
    {i \in 1..Len(snapshot.videos) :
        /\ snapshot.videos[i].views.t = "int"
        /\ snapshot.videos[i].views.v >= MIN_VIEWS_FOR_DISPLAY}

RowKeys(rows) == {rows[i].video_key : i \in 1..Len(rows)}

\* C10: ranking by views keeps every entity at or above the view threshold,
\* up to n, whatever its delta fields; ranking by views_delta or
\* views_delta_pct has no row for an entity whose field is NotAvailable or
\* missing, so a first-run snapshot ranks by views and gives no rows by
\* views_delta_pct.
C10_RankingAndDeltaFields ==
    ranked.set =>
        LET s == ranked.snapshot
            elig == Eligible(s)
        IN  /\ ranked.metric = "views" =>
                /\ Len(ranked.rows) = Min(ranked.top_n, Cardinality(elig))
                /\ RowKeys(ranked.rows) \subseteq {s.videos[i].key : i \in elig}
                /\ Cardinality(elig) <= ranked.top_n =>
                       RowKeys(ranked.rows) = {s.videos[i].key : i \in elig}
            /\ ranked.metric # "views" =>
                \A i \in 1..Len(s.videos) :
                    s.videos[i][ranked.metric] \in {NotAvailable, Absent} =>
                        s.videos[i].key \notin RowKeys(ranked.rows)
            /\ (ranked.metric # "views"
                  /\ \A i \in 1..Len(s.videos) : s.videos[i].views_delta = NotAvailable) =>
                ranked.rows = <<>>

C10_Witness ==
    /\ ranked.set
    /\ previous = NoneSnap
    /\ applyCount = 1
    /\ ranked.metric = "views"
    /\ Len(ranked.rows) = 2
    /\ \A i \in 1..Len(ranked.snapshot.videos) :
          ranked.snapshot.videos[i].views_delta_pct = NotAvailable

\* the entity a row was made from
RowEntity(s, row) == VideoAt(s.videos, row.video_key)

Ranks(s, metric, i) ==
    i \in Eligible(s) /\ (metric = "views" \/ s.videos[i][metric].t \in {"int", "float"})

\* C11: get_top_videos_by_metric returns at most n rows, each of an entity
\* of the snapshot whose views is an integer not below MIN_VIEWS_FOR_DISPLAY,
\* in non-increasing order of the chosen metric's value, and returns the
\* empty sequence when the snapshot has no entities or none pass the filter.
C11_TopNFilteredSortedDescending ==
    ranked.set =>
        LET s == ranked.snapshot
            rows == ranked.rows
        IN  /\ Len(rows) <= ranked.top_n
            /\ \A i \in 1..Len(rows) :
                  /\ rows[i].video_key \in KeysOf(s.videos)
                  /\ RowEntity(s, rows[i]).views.t = "int"
                  /\ RowEntity(s, rows[i]).views.v >= MIN_VIEWS_FOR_DISPLAY
                  /\ rows[i].delta = (IF ranked.metric = "views" THEN RowEntity(s, rows[i]).views
                                      ELSE RowEntity(s, rows[i])[ranked.metric])
            /\ \A i, j \in 1..Len(rows) : i < j => Num(rows[i].delta) >= Num(rows[j].delta)
            /\ (\A i \in 1..Len(s.videos) : ~Ranks(s, ranked.metric, i)) => rows = <<>>

\* two entities pass, stored in ascending order of the metric, one row asked
C11_Witness ==
    /\ ranked.set
    /\ ranked.metric = "views_delta"
    /\ ranked.top_n = 1
    /\ Len(ranked.snapshot.videos) = 2
    /\ \A i \in 1..2 : Ranks(ranked.snapshot, "views_delta", i)
    /\ Num(ranked.snapshot.videos[1].views_delta) < Num(ranked.snapshot.videos[2].views_delta)
    /\ Len(ranked.rows) = 1
    /\ ranked.rows[1].video_key = ranked.snapshot.videos[2].key

\* position of an entity in the iteration order of snapshot["videos"]
PosOf(s, k) == CHOOSE i \in 1..Len(s.videos) : s.videos[i].key = k

\* C13: rows of equal sort value keep the relative order their entities
\* have in the snapshot's entity mapping.
C13_TiesKeepSnapshotOrder ==
    ranked.set =>
        \A i, j \in 1..Len(ranked.rows) :
            (i < j /\ Num(ranked.rows[i].delta) = Num(ranked.rows[j].delta)) =>
                PosOf(ranked.snapshot, ranked.rows[i].video_key)
                    < PosOf(ranked.snapshot, ranked.rows[j].video_key)

\* a tie on views between two rows whose entities are stored v2 before v1
C13_Witness ==
    /\ ranked.set
    /\ ranked.metric = "views"
    /\ Len(ranked.rows) = 2
    /\ ranked.rows[1].delta = ranked.rows[2].delta
    /\ ranked.snapshot.videos[1].key = "v2"
    /\ ranked.snapshot.videos[2].key = "v1"
    /\ ranked.rows[1].video_key = "v2"
    /\ ranked.rows[1].video_key = "v2"
    /\ ranked.rows[2].video_key = "v1"

-----------------------------------------------------------------------------
(* Properties of the builders *)

\* the sub-sources whose lookup succeeded, with the videos they contribute
ChannelVideos(w) ==
    UNION { {UploadsOf(ChannelsCfg[i].channel_id)[n] :
                n \in 1..Len(UploadsOf(ChannelsCfg[i].channel_id))} :
            i \in {c \in 1..Len(ChannelsCfg) : w.chan[c] = "ok"} }

KeywordVideos(w) ==
    UNION { {SearchResultOf(KeywordQueries[j].query)[n] :
                n \in 1..Len(SearchResultOf(KeywordQueries[j].query))} :
            j \in {q \in 1..Len(KeywordQueries) : w.kw[q] = "ok"} }

\* C7: whatever collaborator calls fail (channel lookup, keyword search,
\* statistics batch; HTTP error or any other error),
\* build_snapshot_from_channels_and_keywords raises nothing and returns a
\* snapshot; only a missing API key raises.
C7_BuildNeverRaisesOnCollaborator ==
    built.builder = "channels_and_keywords" =>
        /\ built.raised # NotRaised <=> ~world.api_key
        /\ built.raised # NotRaised => built.raised = ConfigError
        /\ built.raised = NotRaised =>
              /\ built.snapshot.kind = "dict"
              /\ {built.snapshot.videos[i].video_id : i \in 1..Len(built.snapshot.videos)}
                     \subseteq ChannelVideos(world) \cup KeywordVideos(world)
              /\ world.stats[1] = "ok" =>
                     {built.snapshot.videos[i].video_id : i \in 1..Len(built.snapshot.videos)}
                        = ChannelVideos(world) \cup KeywordVideos(world)

\* the batch that holds the i-th id of the list
BatchOf(i) == ((i - 1) \div BATCH_SIZE) + 1

\* C14: when the statistics request of a batch fails only that batch is
\* skipped: fetch_youtube_stats_for_videos raises nothing and returns the
\* statistics of every video of every other batch, the batches after the
\* failing one included.
C14_OnlyFailingBatchSkipped ==
    (built.builder = "fetch_youtube_stats_for_videos" /\ world.api_key) =>
        /\ built.raised = NotRaised
        /\ built.ids = {built.video_ids[i] : i \in {j \in 1..Len(built.video_ids) :
                                                      world.stats[BatchOf(j)] = "ok"}}

-----------------------------------------------------------------------------
(* Properties of the snapshot store *)

WellFormedSnapshot(doc) ==
    /\ doc.kind = "dict"
    /\ doc.hasVideos
    /\ \A i \in 1..Len(doc.videos) :
          /\ isinstance_int(doc.videos[i].views)
          /\ isinstance_int(doc.videos[i].likes)
          /\ isinstance_int(doc.videos[i].comments)

FirstRun(snapshot) ==
    \A i \in 1..Len(snapshot.videos) :
        /\ snapshot.videos[i].views_delta = NotAvailable
        /\ snapshot.videos[i].likes_delta = NotAvailable
        /\ snapshot.videos[i].comments_delta = NotAvailable
        /\ snapshot.videos[i].subscribers_delta = NotAvailable
        /\ snapshot.videos[i].views_delta_pct = NotAvailable

\* C8: load_previous_data never raises; for a file that is missing,
\* unreadable, not JSON or not a well-formed snapshot it returns None, and
\* the caller goes on as on a first run.
C8_LoadFailsSoft ==
    loaded.done =>
        /\ loaded.raised = NotRaised
        /\ ~(file.st = "json" /\ WellFormedSnapshot(file.doc)) =>
              /\ loaded.value = NoneSnap
              /\ loaded.after # "" => loaded.after = "ok" /\ FirstRun(current)

-----------------------------------------------------------------------------
(* Properties of successive refresh cycles *)

\* the snapshot file holds this entity of the preceding save
Preceding(k) == file.st = "json" /\ k \in KeysOf(file.doc.videos)

\* C17: every save of a cycle replaces the persisted snapshot by the
\* entities of that cycle's build, none carried over from the snapshot it
\* replaces; an entity that the replaced snapshot lacks has NotAvailable
\* deltas, also when an earlier snapshot held it, and every concrete delta
\* is the difference to the replaced snapshot.
C17_SnapshotIsLatestBuild ==
    [][ file' # file =>
          /\ file'.st = "json"
          /\ Len(file'.doc.videos) = Len(built'.snapshot.videos)
          /\ \A i \in 1..Len(file'.doc.videos) :
                LET e == file'.doc.videos[i] IN
                /\ e.key = built'.snapshot.videos[i].key
                /\ e.views = built'.snapshot.videos[i].views
                /\ IF Preceding(e.key)
                   THEN LET b == VideoAt(file.doc.videos, e.key) IN
                        /\ e.views_delta = IntVal(e.views.v - b.views.v)
                        /\ e.likes_delta = IntVal(e.likes.v - b.likes.v)
                        /\ e.comments_delta = IntVal(e.comments.v - b.comments.v)
                        /\ e.subscribers_delta =
                               IntVal(OrZero(e.subscribers) - OrZero(b.subscribers))
                   ELSE AllNotAvailable(e) /\ e.views_delta_pct = NotAvailable
      ]_vars

\* third cycle, a day after the first: the second cycle's snapshot, itself
\* compared with the first, lacked channel hasan's video, which is back
\* without deltas beside a video compared with the second cycle
C17_Witness ==
    /\ nreq = 3
    /\ now = 1440
    /\ file.st = "json"
    /\ previous.kind = "dict"
    /\ "channel_hasan_a" \notin KeysOf(previous.videos)
    /\ \E j \in 1..Len(previous.videos) : previous.videos[j].views_delta = IntVal(100)
    /\ \E i, j \in 1..Len(file.doc.videos) :
          /\ file.doc.videos[i].key = "channel_hasan_a"
          /\ AllNotAvailable(file.doc.videos[i])
          /\ file.doc.videos[j].views_delta = IntVal(3900)

-----------------------------------------------------------------------------
(* Properties of the refresh callers *)

\* C4: a build that yields zero entities never leads to a save, in CLI
\* option 4, CLI option 5 and the web endpoint: no handler whose build
\* returned an empty entity mapping goes on to write the snapshot file.
C4_EmptyBuildNeverSaved ==
    \A p \in Procs : procs[p].emptyBuild => procs[p].pc \notin SavePcs \cup {"set_guard"}

\* the request that p starts in this step, as it stands after the step
Began(p) ==
    /\ nreq' = nreq + 1
    /\ procs[p].pc = "idle"
    /\ \/ procs'[p] # procs[p]
       \/ procs' = procs /\ response'.proc = p

Started(p) == IF procs'[p] # procs[p] THEN procs'[p] ELSE response'

NoOp(status) ==
    /\ procs' = procs
    /\ response'.status = status
    /\ ~response'.ranBuild
    /\ file' = file
    /\ guard' = guard

\* C5: an authorised request to the endpoint less than 24 hours after the
\* recorded last run, and a CLI option 5 less than 1 minute after it, is a
\* no-op: it reports skipped, builds nothing and leaves the snapshot file and
\* the guard timestamp as they were.
C5_RecentRequestIsNoOp ==
    [][ /\ \A p \in WebProcs :
             ( /\ Began(p)
               /\ refreshToken # ""
               /\ Started(p).token = refreshToken
               /\ guard.st = "json"
               /\ now - guard.last_run < 1440 ) => NoOp("skipped_recent")
        /\ ( /\ Began("cli")
             /\ Started("cli").opt = "5"
             /\ guard.st = "json"
             /\ now - guard.last_run < 1 ) => NoOp("skipped")
      ]_vars

C5_Witness ==
    /\ response.status = "skipped_recent"
    /\ response.proc \in WebProcs
    /\ guard = GuardAt(0)
    /\ now = 10
    /\ file.st = "json"

\* C12: on the refresh endpoint an unconfigured secret gives the server
\* misconfiguration error for every token, a configured secret with another
\* token gives the authorization failure, and neither runs a build or changes
\* the snapshot file or the guard timestamp; only a request whose token
\* matches the configured secret gets past the checks, and only such a
\* request is answered ok, skipped_recent or error_no_videos.
C12_TokenGate ==
    [][ /\ \A p \in WebProcs :
             (Began(p) /\ Started(p).opt = "web") =>
                 /\ refreshToken = "" => NoOp("http_500")
                 /\ (refreshToken # "" /\ Started(p).token # refreshToken) => NoOp("http_403")
        /\ \A p \in WebProcs :
             procs'[p].pc # "idle" =>
                 refreshToken' # "" /\ procs'[p].token = refreshToken'
        /\ (response'.opt = "web"
               /\ response'.status \in {"ok", "skipped_recent", "error_no_videos"}) =>
             refreshToken' # "" /\ response'.token = refreshToken'
      ]_vars

\* a wrong token refused while a snapshot and a guard timestamp are stored
C12_Witness ==
    /\ response.opt = "web"
    /\ response.status = "http_403"
    /\ response.token # refreshToken
    /\ ~response.ranBuild
    /\ file.st = "json"
    /\ guard.st = "json"

NotSaving ==
    {"skipped_recent", "skipped", "error_no_videos", "no_videos", "http_403", "http_500", "raised"}

\* C15: the guard timestamp is written only by a cycle of the endpoint or of
\* CLI option 5 that has just saved a snapshot with entities, as it answers
\* ok / shows its list; a skipped request, an empty build, an authorization
\* failure and a configuration error leave it as it was, so the guard that an
\* empty build leaves behind does not skip the request that follows.
C15_GuardWrittenOnlyAfterSave ==
    [][ /\ guard' # guard =>
             \E p \in Procs :
                 /\ procs[p].opt \in {"web", "5"}
                 /\ procs[p].saved
                 /\ ~procs[p].emptyBuild
                 /\ procs'[p] = IdleProc
                 /\ response' = Respond(p, procs[p], IF p \in WebProcs THEN "ok" ELSE "shown")
                 /\ guard' = GuardAt(now)
        /\ response'.status \in NotSaving => guard' = guard
        /\ \A p \in Procs :
             ( /\ procs[p].pc = "build"
               /\ procs'[p] = IdleProc
               /\ response'.proc = p
               /\ response'.status \in {"error_no_videos", "no_videos"}
               /\ guard = procs[p].last_run ) =>
                 ~RecentlyRun(guard', now', IF p \in WebProcs THEN WEB_GUARD_MINUTES
                                           ELSE CLI_GUARD_MINUTES)
      ]_vars

\* after a saved cycle and, a day later, an empty build, the next request to
\* the endpoint is past the guard
C15_Witness ==
    /\ response.opt = "web"
    /\ response.status = "error_no_videos"
    /\ guard = GuardAt(0)
    /\ file.st = "json"
    /\ \E p \in WebProcs : procs[p].pc = "build" /\ procs[p].last_run = guard

\* C6: refresh cycles never overlap: at most one request to the endpoint at
\* a time is past the guard, in its load-build-save sequence.
C6_RefreshCyclesNeverOverlap ==
    Cardinality({p \in WebProcs : procs[p].pc # "idle"}) <= 1

\* C9: a load never observes an empty, truncated or partially written
\* snapshot file: every load_previous_data, of the dashboard or of a refresh,
\* reads a complete document (or finds no file yet).
C9_LoadSeesCompleteDocument ==
    /\ response.saw \notin {"truncated", "invalid"}
    /\ \A p \in Procs : procs[p].saw \notin {"truncated", "invalid"}

====
